---- MODULE Spec2Model ----
(***************************************************************************)
(* HDP-LDA Chinese-restaurant-franchise state (microscopes::lda::state)    *)
(* and its collapsed Gibbs sweep (_inference).                             *)
(*                                                                         *)
(* Conventions.  Documents j and word positions i are 1-based (C++ index   *)
(* + 1).  The id-indexed vectors (k_jt[j], n_jt[j], n_jtv[j], m_k, n_kv_)  *)
(* are functions on 0..size-1, indexed by the C++ id.  The active          *)
(* sequences using_t[j] and dishes_ are TLA+ sequences: C++ position p is  *)
(* position p+1.  float quantities (alpha, beta, gamma, n_k, n_kv_) are    *)
(* exact rationals stored as integers in units of 1/Denom; ratios of them  *)
(* are reduced fractions [num, den] (den = 0 stands for inf/NaN).          *)
(***************************************************************************)
EXTENDS Integers, Sequences, FiniteSets, TLC

(* ---------------- bounds of the model ---------------- *)
NDocs == 2          \* number of documents of the corpus
MaxDocLen == 2      \* longest document
MaxWords == 3       \* most words of the corpus, all documents together
MaxSweeps == 2      \* calls of _inference
Denom == 2          \* float values are multiples of 1/Denom
AlphaU == 1         \* alpha = AlphaU / Denom
BetaU == 1          \* beta  = BetaU / Denom
GammaU == 1         \* gamma = GammaU / Denom
SizeBits == 16      \* width standing in for size_t (wrap-around arithmetic)
V == 2              \* size of vocabulary: ids 0..V-1

VARIABLES
  x_ji,      \* corpus: x_ji[j][i] vocabulary id of word i of document j
  using_t,   \* using_t[j]: active table ids of document j, 0 first
  dishes_,   \* active dish ids, 0 first
  k_jt,      \* k_jt[j][t]: dish of table t of document j
  n_jt,      \* n_jt[j][t]: number of words at table t of document j
  n_jtv,     \* n_jtv[j][t]: std::map v -> count
  m,         \* total number of active tables
  m_k,       \* m_k[k]: number of tables of dish k
  n_k,       \* defaultdict k -> words of dish k (+ beta*V)
  n_kv_,     \* n_kv_[k]: defaultdict v -> words v of dish k (+ beta)
  t_ji,      \* t_ji[j][i]: table of word i of document j (0 = none)
  ok,        \* FALSE once an assert of the sampler has tripped
  phase,     \* "idle" | "word" | "table": position of _inference
  cj,        \* document of the pending step
  ci,        \* word phase: word position; table phase: position in using_t[cj]
  sweeps,    \* completed calls of _inference
  budget,    \* calls of _inference the driver makes
  last       \* record of the last step taken (only in the traced specifications)

vars == <<x_ji, using_t, dishes_, k_jt, n_jt, n_jtv, m, m_k, n_k, n_kv_,
          t_ji, ok, phase, cj, ci, sweeps, budget, last>>

(* ---------------- containers ---------------- *)
Size(f) == Cardinality(DOMAIN f)

PushBack(f, x) == [i \in 0..Size(f) |-> IF i < Size(f) THEN f[i] ELSE x]

MapSet(f, key, val) == [x \in (DOMAIN f) \cup {key} |-> IF x = key THEN val ELSE f[x]]

\* std::map<size_t,size_t>::operator[] read: a missing key reads as 0
MapGet(f, key) == IF key \in DOMAIN f THEN f[key] ELSE 0

EmptyMap == [x \in {} |-> 0]

SizeModulus == 2 ^ SizeBits

\* size_t addition / subtraction
SizeAdd(a, b) == (a + b) % SizeModulus
SizeSub(a, b) == (a - b) % SizeModulus

\* std::vector::insert(begin() + pos, x), pos a C++ position
InsertAt(s, pos, x) == SubSeq(s, 1, pos) \o <<x>> \o SubSeq(s, pos + 1, Len(s))

RECURSIVE removeFirst(_, _)
removeFirst(s, e) ==
  IF s = <<>> THEN <<>>
  ELSE IF Head(s) = e THEN Tail(s)
  ELSE <<Head(s)>> \o removeFirst(Tail(s), e)

\* util::defaultdict
defaultdict(val) == [default |-> val, map |-> EmptyMap]
DDget(d, t) == IF t \in DOMAIN d.map THEN d.map[t] ELSE d.default
DDset(d, t, val) == [d EXCEPT !.map = MapSet(d.map, t, val)]
\* incr that forgets the default value of a missing key
DDincr_no_default(d, t, by) ==
  IF t \in DOMAIN d.map THEN [d EXCEPT !.map[t] = @ + by]
  ELSE [d EXCEPT !.map = MapSet(d.map, t, by)]

DDincr(d, t, by) ==
  IF t \in DOMAIN d.map THEN [d EXCEPT !.map[t] = @ + by]
  ELSE [d EXCEPT !.map = MapSet(d.map, t, by + d.default)]
DDdecr(d, t, by) ==
  IF t \in DOMAIN d.map THEN [d EXCEPT !.map[t] = @ - by]
  ELSE [d EXCEPT !.map = MapSet(d.map, t, d.default - by)]

(* ---------------- exact fractions ---------------- *)
Abs(a) == IF a < 0 THEN -a ELSE a

RECURSIVE GCD(_, _)
GCD(a, b) == IF b = 0 THEN a ELSE GCD(b, a % b)

\* n/d reduced, d > 0; d = 0 is the result of a division by zero
Frac(n, d) ==
  IF d = 0 THEN [num |-> n, den |-> 0]
  ELSE LET g == GCD(Abs(n), Abs(d))
           s == IF d < 0 THEN -1 ELSE 1
       IN [num |-> s * (n \div g), den |-> s * (d \div g)]

FracFinite(a) == a.den # 0
FracAdd(a, b) ==
  IF a.den = 0 \/ b.den = 0 THEN [num |-> 0, den |-> 0]
  ELSE Frac(a.num * b.den + b.num * a.den, a.den * b.den)
FracMul(a, b) ==
  IF a.den = 0 \/ b.den = 0 THEN [num |-> 0, den |-> 0]
  ELSE Frac(a.num * b.num, a.den * b.den)
FracDiv(a, b) ==
  IF a.den = 0 \/ b.den = 0 THEN [num |-> 0, den |-> 0]
  ELSE Frac(a.num * b.den, a.den * b.num)
FracInt(n) == [num |-> n, den |-> 1]

\* sum of the entries of a vector (function on 0..n-1) of fractions
RECURSIVE FracSumTo(_, _)
FracSumTo(p, n) == IF n = 0 THEN FracInt(0) ELSE FracAdd(FracSumTo(p, n - 1), p[n - 1])
FracSum(p) == FracSumTo(p, Size(p))

\* Eigen: p /= p.sum()
normalize(p) == LET total == FracSum(p) IN [i \in DOMAIN p |-> FracDiv(p[i], total)]

valid_probability_vector(p) ==
  /\ \A i \in DOMAIN p : FracFinite(p[i]) /\ p[i].num >= 0
  /\ LET sum == FracSum(p)
     IN FracFinite(sum) /\ 100 * Abs(sum.den - sum.num) < sum.den

(* ---------------- the state as a value ---------------- *)
\* the mutable fields of class state, bundled so that the member functions
\* can be composed
cur ==
  [using_t |-> using_t, dishes_ |-> dishes_, k_jt |-> k_jt, n_jt |-> n_jt,
   n_jtv |-> n_jtv, m |-> m, m_k |-> m_k, n_k |-> n_k, n_kv_ |-> n_kv_,
   t_ji |-> t_ji, ok |-> ok]

\* assert(cond)
Check(S, cond) == IF cond THEN S ELSE [S EXCEPT !.ok = FALSE]

One == Denom   \* the float 1 in units of 1/Denom

(* ---------------- mutation primitives ---------------- *)
\* Each member function is one operator; where the code uses the state it
\* has just changed, the rest of the function is a second operator that
\* takes that state as its argument.

delete_dish(S, did) == [S EXCEPT !.dishes_ = removeFirst(@, did)]

\* delete_table from "assert(m_k[k] >= 0)" on
delete_table_cascade(S1, k) ==
  IF ~(S1.m_k[k] >= 0) THEN Check(S1, FALSE)
  ELSE IF S1.m_k[k] = 0 THEN delete_dish(S1, k)
  ELSE S1

\* delete_table that forgets the global table count
delete_table_no_m(S, eid, tid) ==
  delete_table_cascade([S EXCEPT !.using_t[eid] = removeFirst(@, tid),
                                 !.m_k[S.k_jt[eid][tid]] = SizeSub(@, 1)],
                       S.k_jt[eid][tid])

delete_table(S, eid, tid) ==
  delete_table_cascade([S EXCEPT !.using_t[eid] = removeFirst(@, tid),
                                 !.m_k[S.k_jt[eid][tid]] = SizeSub(@, 1),
                                 !.m = SizeSub(@, 1)],
                       S.k_jt[eid][tid])

\* remove_table from "if (n_jt[eid][t] == 0)" on
remove_table_last(S1, eid, t) ==
  IF S1.n_jt[eid][t] = 0 THEN delete_table(S1, eid, t) ELSE S1

\* remove_table that leaves a table without words in using_t
remove_table_keeps_empty(S, eid, tid) ==
  LET t == S.t_ji[eid][tid]
      k == S.k_jt[eid][t]
      v == x_ji[eid][tid]
  IN IF t > 0
     THEN [S EXCEPT !.n_kv_[k] = DDdecr(@, v, One),
                    !.n_k = DDdecr(@, k, One),
                    !.n_jt[eid][t] = SizeSub(@, 1),
                    !.n_jtv[eid][t] = MapSet(@, v, SizeSub(MapGet(@, v), 1))]
     ELSE S

\* remove_table that forgets the dish total
remove_table_no_n_k(S, eid, tid) ==
  LET t == S.t_ji[eid][tid]
      k == S.k_jt[eid][t]
      v == x_ji[eid][tid]
  IN IF t > 0
     THEN IF k > 0
          THEN remove_table_last(
                 [S EXCEPT !.n_kv_[k] = DDdecr(@, v, One),
                           !.n_jt[eid][t] = SizeSub(@, 1),
                           !.n_jtv[eid][t] = MapSet(@, v, SizeSub(MapGet(@, v), 1))],
                 eid, t)
          ELSE Check(S, FALSE)
     ELSE S

remove_table(S, eid, tid) ==
  LET t == S.t_ji[eid][tid]
      k == S.k_jt[eid][t]
      v == x_ji[eid][tid]
  IN IF t > 0
     THEN IF k > 0
          THEN remove_table_last(
                 [S EXCEPT !.n_kv_[k] = DDdecr(@, v, One),
                           !.n_k = DDdecr(@, k, One),
                           !.n_jt[eid][t] = SizeSub(@, 1),
                           !.n_jtv[eid][t] = MapSet(@, v, SizeSub(MapGet(@, v), 1))],
                 eid, t)
          ELSE Check(S, FALSE)
     ELSE S

\* add_table that forgets the table's word count
add_table_no_n_jt(S, ein, t_new, did) ==
  LET k_new == S.k_jt[ein][t_new]
      v == x_ji[ein][did]
  IN [S EXCEPT !.t_ji[ein][did] = t_new,
               !.n_k = DDincr(@, k_new, One),
               !.n_kv_[k_new] = DDincr(@, v, One),
               !.n_jtv[ein][t_new] = MapSet(@, v, SizeAdd(MapGet(@, v), 1))]

add_table(S, ein, t_new, did) ==
  LET k_new == S.k_jt[ein][t_new]
      v == x_ji[ein][did]
  IN [S EXCEPT !.t_ji[ein][did] = t_new,
               !.n_jt[ein][t_new] = SizeAdd(@, 1),
               !.n_k = DDincr(@, k_new, One),
               !.n_kv_[k_new] = DDincr(@, v, One),
               !.n_jtv[ein][t_new] = MapSet(@, v, SizeAdd(MapGet(@, v), 1))]

\* the scan replaced by "always append"
FirstGap_append(seq) == Len(seq)

\* the scan of create_dish / create_table: the first C++ position i with
\* i != seq[i], or seq.size() when there is none
FirstGap(seq) ==
  IF \A p \in 1..Len(seq) : seq[p] = p - 1 THEN Len(seq)
  ELSE (CHOOSE p \in 1..Len(seq) :
          seq[p] # p - 1 /\ \A q \in 1..(p - 1) : seq[q] = q - 1) - 1

\* create_dish that leaves n_k and n_kv_ of a reused dish id as they were
create_dish_insert_keeps_counts(S1, k_new) ==
  [S |-> [S1 EXCEPT !.dishes_ = InsertAt(@, k_new, k_new),
                    !.m_k[k_new] = 0],
   id |-> k_new]

\* create_dish from "dishes_.insert" on; S1 is the state after the push_backs
create_dish_insert(S1, k_new) ==
  [S |-> [S1 EXCEPT !.dishes_ = InsertAt(@, k_new, k_new),
                    !.n_k = DDset(@, k_new, BetaU * V),
                    !.n_kv_[k_new] = defaultdict(BetaU),
                    !.m_k[k_new] = 0],
   id |-> k_new]

\* create_dish inside "if (k_new == dishes_.size())", after the push_backs
create_dish_grown(S1, k_new) ==
  IF k_new = S1.dishes_[Len(S1.dishes_)] + 1 /\ k_new < Size(S1.n_kv_)
  THEN create_dish_insert(S1, k_new)
  ELSE [S |-> Check(S1, FALSE), id |-> k_new]

\* create_dish after the scan
create_dish_at(S, k_new) ==
  IF k_new = Len(S.dishes_)
  THEN create_dish_grown([S EXCEPT !.m_k = PushBack(@, S.m_k[0]),
                                   !.n_kv_ = PushBack(@, defaultdict(BetaU))],
                         k_new)
  ELSE create_dish_insert(S, k_new)

\* returns [S |-> state after the call, id |-> k_new]
create_dish(S) == create_dish_at(S, FirstGap(S.dishes_))

\* create_table from "using_t[ein].insert" on
create_table_insert(S1, ein, k_new, t_new) ==
  IF k_new = 0
  THEN [S |-> Check([S1 EXCEPT !.using_t[ein] = InsertAt(@, t_new, t_new),
                               !.n_jt[ein][t_new] = 0], FALSE),
        id |-> t_new]
  ELSE [S |-> [S1 EXCEPT !.using_t[ein] = InsertAt(@, t_new, t_new),
                         !.n_jt[ein][t_new] = 0,
                         !.k_jt[ein][t_new] = k_new,
                         !.m_k[k_new] = SizeAdd(@, 1),
                         !.m = SizeAdd(@, 1)],
        id |-> t_new]

\* create_table after the scan
create_table_at(S, ein, k_new, t_new) ==
  IF t_new = Len(S.using_t[ein])
  THEN create_table_insert([S EXCEPT !.n_jt[ein] = PushBack(@, 0),
                                     !.k_jt[ein] = PushBack(@, 0),
                                     !.n_jtv[ein] = PushBack(@, EmptyMap)],
                           ein, k_new, t_new)
  ELSE create_table_insert(S, ein, k_new, t_new)

\* returns [S |-> state after the call, id |-> t_new]
create_table(S, ein, k_new) == create_table_at(S, ein, k_new, FirstGap(S.using_t[ein]))

\* leave_from_dish that never destroys the dish
leave_from_dish_keeps_dish(S1, j, t, k) == S1

\* leave_from_dish that clears the dish of the table whether or not the
\* dish is destroyed
leave_from_dish_clears_always(S1, j, t, k) ==
  IF S1.m_k[k] = 0
  THEN [S1 EXCEPT !.dishes_ = removeFirst(@, k), !.k_jt[j][t] = 0]
  ELSE [S1 EXCEPT !.k_jt[j][t] = 0]

\* leave_from_dish from "if (m_k[k] == 0)" on
leave_from_dish_cascade(S1, j, t, k) ==
  IF S1.m_k[k] = 0
  THEN [S1 EXCEPT !.dishes_ = removeFirst(@, k), !.k_jt[j][t] = 0]
  ELSE S1

leave_from_dish(S, j, t) ==
  LET k == S.k_jt[j][t]
  IN IF k > 0 /\ S.m_k[k] > 0
     THEN leave_from_dish_cascade(
            [S EXCEPT !.m_k[k] = SizeSub(@, 1), !.m = SizeSub(@, 1)], j, t, k)
     ELSE Check(S, FALSE)

\* d.incr(v, n) (sign 1) or d.decr(v, n) (sign -1) for every (v, n) of the
\* std::map mp; the keys of a map are distinct, so each entry of d is
\* touched at most once
DDincrAll(d, mp, sign) ==
  [d EXCEPT !.map = [x \in (DOMAIN d.map) \cup (DOMAIN mp) |->
                        (IF x \in DOMAIN d.map THEN d.map[x] ELSE d.default)
                        + (IF x \in DOMAIN mp THEN sign * mp[x] * One ELSE 0)]]

\* seat_at_dish that moves the per-word counts but not the dish totals
seat_at_dish_no_n_k(S, j, t, k_new) ==
  LET k_old == S.k_jt[j][t]
  IN IF k_new = k_old
     THEN [S EXCEPT !.m = SizeAdd(@, 1), !.m_k[k_new] = SizeAdd(@, 1)]
     ELSE IF k_new = 0
     THEN Check([S EXCEPT !.m = SizeAdd(@, 1), !.m_k[k_new] = SizeAdd(@, 1)], FALSE)
     ELSE [S EXCEPT !.m = SizeAdd(@, 1),
                    !.m_k[k_new] = SizeAdd(@, 1),
                    !.k_jt[j][t] = k_new,
                    !.n_kv_[k_old] = IF k_old # 0 THEN DDincrAll(@, S.n_jtv[j][t], -1) ELSE @,
                    !.n_kv_[k_new] = DDincrAll(@, S.n_jtv[j][t], 1)]

seat_at_dish(S, j, t, k_new) ==
  LET k_old == S.k_jt[j][t]
      n_jt_val == S.n_jt[j][t] * One
  IN IF k_new = k_old
     THEN [S EXCEPT !.m = SizeAdd(@, 1), !.m_k[k_new] = SizeAdd(@, 1)]
     ELSE IF k_new = 0
     THEN Check([S EXCEPT !.m = SizeAdd(@, 1), !.m_k[k_new] = SizeAdd(@, 1)], FALSE)
     ELSE [S EXCEPT !.m = SizeAdd(@, 1),
                    !.m_k[k_new] = SizeAdd(@, 1),
                    !.k_jt[j][t] = k_new,
                    !.n_k = DDincr(IF k_old # 0 THEN DDdecr(@, k_old, n_jt_val) ELSE @,
                                   k_new, n_jt_val),
                    !.n_kv_[k_old] = IF k_old # 0 THEN DDincrAll(@, S.n_jtv[j][t], -1) ELSE @,
                    !.n_kv_[k_new] = DDincrAll(@, S.n_jtv[j][t], 1)]

(* ---------------- posterior computation ---------------- *)
calc_f_k(S, v) ==
  [k \in 0..(Size(S.n_kv_) - 1) |->
     IF k = 0 THEN Frac(DDget(S.n_kv_[0], v) - BetaU, DDget(S.n_k, 0))
     ELSE Frac(DDget(S.n_kv_[k], v), DDget(S.n_k, k))]

\* eigen_f_k.dot(eigen_m_k): over every slot of m_k
RECURSIVE DotTo(_, _, _)
DotTo(f_k, mk, n) ==
  IF n = 0 THEN FracInt(0)
  ELSE FracAdd(DotTo(f_k, mk, n - 1), FracMul(f_k[n - 1], FracInt(mk[n - 1])))

\* p_t before "p_t /= p_t.sum()"
table_weights(S, j, f_k) ==
  LET using_table == S.using_t[j]
      p_x_ji == FracAdd(Frac(GammaU, Denom * V), DotTo(f_k, S.m_k, Size(S.m_k)))
  IN [i \in 0..(Len(using_table) - 1) |->
        IF i = 0 THEN FracMul(p_x_ji, Frac(AlphaU, GammaU + S.m * Denom))
        ELSE LET p == using_table[i + 1]
             IN FracMul(FracInt(S.n_jt[j][p]), f_k[S.k_jt[j][p]])]

calc_table_posterior(S, j, f_k) == normalize(table_weights(S, j, f_k))

\* the weights without "p_k(0) = gamma_ / V"
dish_weights_w_no_sentinel(S, f_k) ==
  [i \in 0..(Len(S.dishes_) - 1) |->
     FracMul(FracInt(S.m_k[S.dishes_[i + 1]]), f_k[S.dishes_[i + 1]])]

\* p_k before "p_k /= p_k.sum()"
dish_weights_w(S, f_k) ==
  [i \in 0..(Len(S.dishes_) - 1) |->
     IF i = 0 THEN Frac(GammaU, Denom * V)
     ELSE FracMul(FracInt(S.m_k[S.dishes_[i + 1]]), f_k[S.dishes_[i + 1]])]

calc_dish_posterior_w(S, f_k) == normalize(dish_weights_w(S, f_k))

\* calc_dish_posterior_t works in log space.  log_args[i] is the set of the
\* arguments handed to fast_log / fast_lgamma for entry i (units 1/Denom);
\* log_p_k[i] is finite exactly when all of them are > 0.  asserts is the
\* conjunction of the asserts of the function.
dish_posterior_t_terms(S, j, t) ==
  LET k_old == S.k_jt[j][t]
      n_jt_val == S.n_jt[j][t] * One
      words == {w \in DOMAIN S.n_jtv[j][t] : S.n_jtv[j][t][w] # 0}
      n_k_val(k) == IF k = k_old THEN DDget(S.n_k, k) - n_jt_val ELSE DDget(S.n_k, k)
      n_kw(k, w) == IF k = k_old THEN DDget(S.n_kv_[k], w) - S.n_jtv[j][t][w] * One
                    ELSE DDget(S.n_kv_[k], w)
      args(i) ==
        IF i = 0
        THEN {GammaU, V * BetaU, V * BetaU + n_jt_val}
             \cup {BetaU + S.n_jtv[j][t][w] * One : w \in words} \cup {BetaU}
        ELSE LET k == S.dishes_[i + 1]
             IN {S.m_k[k] * One, n_k_val(k), n_k_val(k) + n_jt_val}
                \cup {n_kw(k, w) + S.n_jtv[j][t][w] * One : w \in words}
                \cup {n_kw(k, w) : w \in words}
  IN [log_args |-> [i \in 0..(Len(S.dishes_) - 1) |-> args(i)],
      asserts |-> \A i \in 1..(Len(S.dishes_) - 1) :
                    LET k == S.dishes_[i + 1]
                    IN /\ n_k_val(k) > 0
                       /\ \A a \in {S.m_k[k] * One, n_k_val(k), n_k_val(k) + n_jt_val} : a > 0
                       /\ \A w \in words : n_kw(k, w) > 0 /\ S.n_jtv[j][t][w] > 0]

\* the returned vector: entry i is "pos" (exp of a finite value, normalized by
\* a sum >= 1) or "nan" when some log_p_k is not finite
calc_dish_posterior_t(S, j, t) ==
  LET terms == dish_posterior_t_terms(S, j, t)
      finite == \A i \in DOMAIN terms.log_args : \A a \in terms.log_args[i] : a > 0
  IN [i \in DOMAIN terms.log_args |-> IF finite THEN "pos" ELSE "nan"]

valid_log_probability_vector(p) == \A i \in DOMAIN p : p[i] = "pos"

(* ---------------- resampling steps ---------------- *)
\* sampling_t: add_table(j, t_new, i) after create_table
sampling_t_attach(ct, j, i) ==
  IF ~ct.S.ok THEN ct.S ELSE add_table(ct.S, j, ct.id, i)

\* sampling_t: create_table(j, k_new); cd is [S, id |-> k_new]
sampling_t_new_table(cd, j, i) ==
  IF ~cd.S.ok THEN cd.S ELSE sampling_t_attach(create_table(cd.S, j, cd.id), j, i)

\* sampling_t after remove_table and calc_f_k
sampling_t_sample(S1, f_k, j, i, word, topic_index) ==
  IF ~(f_k[0].num = 0 /\ f_k[0].den # 0) THEN Check(S1, FALSE)
  ELSE IF ~valid_probability_vector(calc_table_posterior(S1, j, f_k)) THEN Check(S1, FALSE)
  ELSE IF S1.using_t[j][word + 1] # 0 THEN add_table(S1, j, S1.using_t[j][word + 1], i)
  ELSE IF ~valid_probability_vector(calc_dish_posterior_w(S1, f_k)) THEN Check(S1, FALSE)
  ELSE IF S1.dishes_[topic_index + 1] = 0 THEN sampling_t_new_table(create_dish(S1), j, i)
  ELSE sampling_t_new_table([S |-> S1, id |-> S1.dishes_[topic_index + 1]], j, i)

\* sampling_t after remove_table
sampling_t_detached(S1, j, i, word, topic_index) ==
  IF ~S1.ok THEN S1
  ELSE sampling_t_sample(S1, calc_f_k(S1, x_ji[j][i]), j, i, word, topic_index)

\* sampling_t with the outcomes of its draws: word = sample_discrete(p_t),
\* topic_index = sample_discrete(p_k) (drawn only when word is position 0)
sampling_t(S, j, i, word, topic_index) ==
  sampling_t_detached(remove_table(S, j, i), j, i, word, topic_index)

\* sampling_k that returns without seat_at_dish
sampling_k_seat_skipped(cd, j, t) == cd.S

\* sampling_k: seat_at_dish(j, t, k_new); cd is [S, id |-> k_new]
sampling_k_seat(cd, j, t) ==
  IF ~cd.S.ok THEN cd.S ELSE seat_at_dish(cd.S, j, t, cd.id)

\* sampling_k after leave_from_dish
sampling_k_sample(S1, j, t, topic_index) ==
  IF ~S1.ok THEN S1
  ELSE IF ~dish_posterior_t_terms(S1, j, t).asserts THEN Check(S1, FALSE)
  ELSE IF ~valid_log_probability_vector(calc_dish_posterior_t(S1, j, t)) THEN Check(S1, FALSE)
  ELSE IF Len(S1.dishes_) # Size(calc_dish_posterior_t(S1, j, t)) THEN Check(S1, FALSE)
  ELSE IF S1.dishes_[topic_index + 1] = 0 THEN sampling_k_seat(create_dish(S1), j, t)
  ELSE sampling_k_seat([S |-> S1, id |-> S1.dishes_[topic_index + 1]], j, t)

\* sampling_k with the outcome of its draw: topic_index = sample_discrete(p_k)
sampling_k(S, j, t, topic_index) ==
  sampling_k_sample(leave_from_dish(S, j, t), j, t, topic_index)

(* ---------------- construction ---------------- *)
Docs == UNION {[1..n -> 0..(V - 1)] : n \in 0..MaxDocLen}

RECURSIVE TotalLen(_, _)
TotalLen(docs, n) == IF n = 0 THEN 0 ELSE TotalLen(docs, n - 1) + Len(docs[n])

NoStep == [op |-> "none"]

\* state::state over any corpus of the bounds
Construct ==
  /\ x_ji \in {docs \in [1..NDocs -> Docs] : TotalLen(docs, NDocs) <= MaxWords}
  /\ using_t = [j \in 1..NDocs |-> <<0>>]
  /\ dishes_ = <<0>>
  /\ k_jt = [j \in 1..NDocs |-> [t \in {0} |-> 0]]
  /\ n_jt = [j \in 1..NDocs |-> [t \in {0} |-> 0]]
  /\ n_jtv = [j \in 1..NDocs |-> [t \in {0} |-> EmptyMap]]
  /\ m = 0
  /\ m_k = [k \in {0} |-> 1]
  /\ n_k = defaultdict(BetaU * V)
  /\ n_kv_ = [k \in {0} |-> defaultdict(BetaU)]
  /\ t_ji = [j \in 1..NDocs |-> [i \in 1..Len(x_ji[j]) |-> 0]]
  /\ ok = TRUE
  /\ phase = "idle"
  /\ cj = 0
  /\ ci = 0
  /\ sweeps = 0
  /\ last = NoStep

Init == Construct /\ budget = MaxSweeps

(* ---------------- the sweep: _inference ---------------- *)
Install(S) ==
  /\ using_t' = S.using_t
  /\ dishes_' = S.dishes_
  /\ k_jt' = S.k_jt
  /\ n_jt' = S.n_jt
  /\ n_jtv' = S.n_jtv
  /\ m' = S.m
  /\ m_k' = S.m_k
  /\ n_k' = S.n_k
  /\ n_kv_' = S.n_kv_
  /\ t_ji' = S.t_ji
  /\ ok' = S.ok

LexLess(a, b) == a[1] < b[1] \/ (a[1] = b[1] /\ a[2] < b[2])

\* the positions of ps after pos, in loop order
After(ps, pos) == {q \in ps : LexLess(pos, q)}
First(ps) == CHOOSE q \in ps : \A r \in ps : q = r \/ LexLess(q, r)

\* first loop: every word of every document
WordPositions == {<<j, i>> \in (1..NDocs) \X (1..MaxDocLen) : i <= Len(x_ji[j])}

\* second loop: every t of using_t[j] with t != 0 (position in using_t[j])
TablePositions(S) ==
  {<<j, p>> \in (1..NDocs) \X (1..(MaxDocLen + 1)) :
      p <= Len(S.using_t[j]) /\ S.using_t[j][p] # 0}

Goto(ph, pos) == phase' = ph /\ cj' = pos[1] /\ ci' = pos[2] /\ sweeps' = sweeps

\* continue _inference after position pos of the loop ph, state S
Continue(S, ph, pos) ==
  IF ~S.ok THEN UNCHANGED <<phase, cj, ci, sweeps>>
  ELSE IF ph = "word" /\ After(WordPositions, pos) # {}
  THEN Goto("word", First(After(WordPositions, pos)))
  ELSE LET tpos == IF ph = "word" THEN <<0, 0>> ELSE pos
       IN IF After(TablePositions(S), tpos) # {}
          THEN Goto("table", First(After(TablePositions(S), tpos)))
          ELSE phase' = "idle" /\ cj' = 0 /\ ci' = 0 /\ sweeps' = sweeps + 1

\* a call of _inference starts
Inference ==
  /\ phase = "idle"
  /\ ok
  /\ sweeps < budget
  /\ UNCHANGED <<x_ji, using_t, dishes_, k_jt, n_jt, n_jtv, m, m_k, n_k, n_kv_,
                 t_ji, ok, budget, last>>
  /\ IF WordPositions # {}
     THEN Goto("word", First(WordPositions))
     ELSE Continue(cur, "word", <<NDocs, MaxDocLen>>)

\* the state S and the position of _inference after a step
StepTo(S, ph, pos) == Install(S) /\ Continue(S, ph, pos)

\* sampling_t with a single call of sample_discrete on every path
rng_draws_t_single(S1, j, word) == <<"p_t">>

\* the calls of sample_discrete (named by the vector drawn from) sampling_t
\* makes, in order, when its first draw is word; remove_table, calc_f_k,
\* the posteriors, create_dish, create_table and add_table make none
rng_draws_t(S1, j, word) ==
  IF S1.using_t[j][word + 1] = 0 THEN <<"p_t", "p_k">> ELSE <<"p_t">>

\* the calls of sample_discrete sampling_k makes; leave_from_dish,
\* calc_dish_posterior_t, create_dish and seat_at_dish make none
rng_draws_k(S1, j, t) == <<"p_k">>

\* what a sampling_t step computed on its way; S1 is the state after
\* remove_table, f_k the emission ratios
Trace_t(S, S1, f_k, j, i, word, topic_index) ==
  [op |-> "sampling_t", j |-> j, i |-> i, before |-> S, mid |-> S1,
   word |-> word, topic_index |-> topic_index,
   draws |-> rng_draws_t(S1, j, word),
   f_k |-> f_k,
   p_t |-> calc_table_posterior(S1, j, f_k),
   p_k |-> IF S1.using_t[j][word + 1] = 0 THEN calc_dish_posterior_w(S1, f_k) ELSE <<>>,
   new_table |-> S1.using_t[j][word + 1] = 0,
   new_dish |-> S1.using_t[j][word + 1] = 0 /\ S1.dishes_[topic_index + 1] = 0]

\* what a sampling_k step computed on its way; S1 is the state after
\* leave_from_dish
Trace_k(S, S1, j, t, topic_index) ==
  [op |-> "sampling_k", j |-> j, t |-> t, before |-> S, mid |-> S1,
   topic_index |-> topic_index,
   draws |-> rng_draws_k(S1, j, t),
   p_k |-> calc_dish_posterior_t(S1, j, t),
   new_dish |-> S1.dishes_[topic_index + 1] = 0]

\* the draws sampling_t may make in the state S1 it reaches after remove_table
Draws_t(S1, j) ==
  {d \in (0..(Len(S1.using_t[j]) - 1)) \X (0..(Len(S1.dishes_) - 1)) :
      S1.using_t[j][d[1] + 1] # 0 => d[2] = 0}

\* sampling_t(cj, ci) for any outcome of its draws
Step_t(traced) ==
  /\ phase = "word"
  /\ ok
  /\ \E d \in Draws_t(remove_table(cur, cj, ci), cj) :
       /\ StepTo(sampling_t(cur, cj, ci, d[1], d[2]), "word", <<cj, ci>>)
       /\ last' = IF traced
                  THEN Trace_t(cur, remove_table(cur, cj, ci),
                               calc_f_k(remove_table(cur, cj, ci), x_ji[cj][ci]),
                               cj, ci, d[1], d[2])
                  ELSE last
  /\ UNCHANGED <<x_ji, budget>>

\* sampling_k(cj, using_t[cj][ci]) for any outcome of its draw
Step_k(traced) ==
  /\ phase = "table"
  /\ ok
  /\ \E topic_index \in 0..(Len(leave_from_dish(cur, cj, using_t[cj][ci]).dishes_) - 1) :
       /\ StepTo(sampling_k(cur, cj, using_t[cj][ci], topic_index), "table", <<cj, ci>>)
       /\ last' = IF traced
                  THEN Trace_k(cur, leave_from_dish(cur, cj, using_t[cj][ci]),
                               cj, using_t[cj][ci], topic_index)
                  ELSE last
  /\ UNCHANGED <<x_ji, budget>>

Sampling_t == Step_t(FALSE)
Sampling_k == Step_k(FALSE)

Next == Inference \/ Sampling_t \/ Sampling_k

Spec == Init /\ [][Next]_vars

\* the same sweeps, each step leaving its record in last
Sampling_t_traced == Step_t(TRUE)
Sampling_k_traced == Step_k(TRUE)

NextTraced == Inference \/ Sampling_t_traced \/ Sampling_k_traced

SpecTraced == Init /\ [][NextTraced]_vars

(* ---------------- derived views of the state ---------------- *)
Range(seq) == {seq[p] : p \in 1..Len(seq)}

RECURSIVE SumOver(_, _)
\* sum of f[x] over the finite set xs
SumOver(f, xs) ==
  IF xs = {} THEN 0
  ELSE LET x == CHOOSE y \in xs : TRUE IN f[x] + SumOver(f, xs \ {x})

ActiveTables(S, j) == Range(S.using_t[j]) \ {0}
ActiveDishes(S) == Range(S.dishes_) \ {0}

\* the (document, active table) pairs bound to dish k
TablesOfDish(S, k) ==
  {jt \in UNION {{<<j, t>> : t \in ActiveTables(S, j)} : j \in 1..NDocs} :
      S.k_jt[jt[1]][jt[2]] = k}

AttachedWords(S, j) == {i \in 1..Len(x_ji[j]) : S.t_ji[j][i] > 0}

\* observed counts: the stored float minus its pseudo-count, in words
Observed_n_k(S, k) == DDget(S.n_k, k) - BetaU * V
Observed_n_kv(S, k, v) == DDget(S.n_kv_[k], v) - BetaU

(* ---------------- primitives called on their own ---------------- *)
ProbeSweeps == 1    \* sweeps before a primitive is called on its own

InitProbe == Construct /\ budget = ProbeSweeps

\* a single call (or the composition named op) made between two steps of a
\* sweep; last keeps the state it was made in
Probe(op, args, S) ==
  /\ Install(S)
  /\ last' = [op |-> op, args |-> args, before |-> cur]
  /\ phase' = "probed"
  /\ UNCHANGED <<x_ji, cj, ci, sweeps, budget>>

AtBoundary == phase \in {"idle", "word", "table"} /\ ok

Words == {ji \in (1..NDocs) \X (1..MaxDocLen) : ji[2] <= Len(x_ji[ji[1]])}

\* remove_table(j, i); add_table(j, t, i) for a word attached to table t
Probe_round_trip ==
  /\ AtBoundary
  /\ \E ji \in Words :
       LET j == ji[1]
           i == ji[2]
           t == t_ji[j][i]
       IN /\ t > 0
          /\ Probe("round_trip", <<j, i, t>>, add_table(remove_table(cur, j, i), j, t, i))

Probe_remove_table ==
  /\ AtBoundary
  /\ \E ji \in Words : Probe("remove_table", ji, remove_table(cur, ji[1], ji[2]))

\* remove_table(j, i) called twice in a row
Probe_remove_twice ==
  /\ AtBoundary
  /\ \E ji \in Words :
       Probe("remove_twice", ji,
             remove_table(remove_table(cur, ji[1], ji[2]), ji[1], ji[2]))

\* dish_assignments(): MICROSCOPES_DCHECK(false, ...) and an empty vector
dish_assignments(S) == [S |-> Check(S, FALSE), value |-> <<>>]

\* table_assignments(): MICROSCOPES_DCHECK(false, ...) and an empty vector
table_assignments(S) == [S |-> Check(S, FALSE), value |-> <<>>]

\* the two accessors called one after the other; last.args keeps what the
\* calls return
Probe_assignments ==
  /\ AtBoundary
  /\ Probe("assignments",
           <<table_assignments(cur).value,
             dish_assignments(table_assignments(cur).S).value>>,
           dish_assignments(table_assignments(cur).S).S)

\* precondition: the table is active and owns a dish
Probe_add_table ==
  /\ AtBoundary
  /\ \E ji \in Words : \E t \in ActiveTables(cur, ji[1]) :
       /\ k_jt[ji[1]][t] > 0
       /\ Probe("add_table", <<ji[1], t, ji[2]>>, add_table(cur, ji[1], t, ji[2]))

\* precondition: the dish is active
Probe_create_table ==
  /\ AtBoundary
  /\ \E j \in 1..NDocs : \E k \in ActiveDishes(cur) :
       Probe("create_table", <<j, k>>, create_table(cur, j, k).S)

Probe_create_dish ==
  /\ AtBoundary
  /\ Probe("create_dish", <<>>, create_dish(cur).S)

\* precondition: the table is active
Probe_delete_table ==
  /\ AtBoundary
  /\ \E j \in 1..NDocs : \E t \in ActiveTables(cur, j) :
       Probe("delete_table", <<j, t>>, delete_table(cur, j, t))

\* precondition: the dish is active
Probe_delete_dish ==
  /\ AtBoundary
  /\ \E k \in ActiveDishes(cur) : Probe("delete_dish", <<k>>, delete_dish(cur, k))

\* precondition: the table and the dish are active
Probe_seat_at_dish ==
  /\ AtBoundary
  /\ \E j \in 1..NDocs : \E t \in ActiveTables(cur, j) : \E k \in ActiveDishes(cur) :
       Probe("seat_at_dish", <<j, t, k>>, seat_at_dish(cur, j, t, k))

\* precondition: the table is active and owns a dish
Probe_leave_from_dish ==
  /\ AtBoundary
  /\ \E j \in 1..NDocs : \E t \in ActiveTables(cur, j) :
       /\ k_jt[j][t] > 0
       /\ Probe("leave_from_dish", <<j, t>>, leave_from_dish(cur, j, t))

NextProbe ==
  \/ Inference \/ Sampling_t \/ Sampling_k
  \/ Probe_round_trip \/ Probe_remove_table \/ Probe_remove_twice \/ Probe_add_table
  \/ Probe_create_table \/ Probe_create_dish \/ Probe_delete_table
  \/ Probe_delete_dish \/ Probe_seat_at_dish \/ Probe_leave_from_dish
  \/ Probe_assignments

SpecProbe == InitProbe /\ [][NextProbe]_vars

(* ================= properties ================= *)
\* C1: for every dish id k > 0 with storage in m_k, m_k[k] is the number of
\* (document, active table) pairs bound to k, and k is an active dish exactly
\* when m_k[k] > 0.
C1_DishTableCount ==
  ok => \A k \in 1..(Size(m_k) - 1) :
          /\ m_k[k] = Cardinality(TablesOfDish(cur, k))
          /\ (k \in ActiveDishes(cur) <=> m_k[k] > 0)

\* C2: for every document the word counts of its active tables add up to the
\* number of attached words, and to the document length once the first word
\* phase is complete.
C2_TableWordCounts ==
  ok => \A j \in 1..NDocs :
          /\ SumOver(n_jt[j], ActiveTables(cur, j)) = Cardinality(AttachedWords(cur, j))
          /\ (sweeps >= 1 \/ phase = "table")
               => SumOver(n_jt[j], ActiveTables(cur, j)) = Len(x_ji[j])

C2_Witness ==
  /\ sweeps >= 1
  /\ phase = "word"
  /\ ci = 2
  /\ Cardinality(ActiveTables(cur, cj)) >= 2
  /\ \E j \in 1..NDocs : \E t \in ActiveTables(cur, j) : j # cj /\ n_jt[j][t] >= 1

\* C3: for every active dish k > 0, n_k[k] is beta*V plus the sum over the
\* vocabulary of the observed per-word counts.
C3_DishWordTotal ==
  ok => \A k \in ActiveDishes(cur) :
          DDget(n_k, k) =
            BetaU * V + SumOver([v \in 0..(V - 1) |-> Observed_n_kv(cur, k, v)], 0..(V - 1))

\* after a table phase a dish holds several tables and several words, and a
\* higher dish id has storage
C3_Witness ==
  /\ sweeps >= 1
  /\ phase = "table"
  /\ \E k \in ActiveDishes(cur) :
       /\ k < Size(m_k) - 1
       /\ Observed_n_k(cur, k) >= 2
       /\ Cardinality(TablesOfDish(cur, k)) >= 2

\* C4: for every table id t > 0 with storage in n_jt[j], n_jt[j][t] > 0
\* exactly when t is an active table of j.
C4_TableActiveIffWords ==
  ok => \A j \in 1..NDocs : \A t \in 1..(Size(n_jt[j]) - 1) :
          n_jt[j][t] > 0 <=> t \in ActiveTables(cur, j)

\* a destroyed table id keeps its storage
C4_Witness ==
  \E j \in 1..NDocs : \E t \in 1..(Size(n_jt[j]) - 1) :
     /\ t \notin ActiveTables(cur, j)
     /\ ActiveTables(cur, j) # {}

StrictlyAscendingFromZero(seq) ==
  /\ Len(seq) >= 1
  /\ seq[1] = 0
  /\ \A p \in 1..(Len(seq) - 1) : seq[p] < seq[p + 1]

\* the lowest positive integer that is not in seq
LowestUnused(seq) ==
  CHOOSE n \in 1..(Len(seq) + 1) :
    n \notin Range(seq) /\ \A n2 \in 1..(n - 1) : n2 \in Range(seq)

\* seq2 is seq1 with exactly the id x added
AddsExactly(seq1, seq2, x) ==
  /\ x \notin Range(seq1)
  /\ Range(seq2) = Range(seq1) \cup {x}
  /\ Len(seq2) = Len(seq1) + 1

\* C5: an id allocated by create_table / create_dish is the lowest positive
\* integer not in the active sequence, the active sequences stay strictly
\* ascending from the sentinel 0, and a word step that draws the new-table
\* and then the new-dish sentinel adds exactly one table id and one dish id.
C5_LowestFreeIds ==
  /\ StrictlyAscendingFromZero(dishes_)
  /\ \A j \in 1..NDocs : StrictlyAscendingFromZero(using_t[j])
  /\ (ok /\ last.op = "sampling_t" /\ last.new_table) =>
       LET j == last.j
           t_new == t_ji[j][last.i]
       IN /\ t_new = LowestUnused(last.mid.using_t[j])
          /\ AddsExactly(last.mid.using_t[j], using_t[j], t_new)
          /\ IF last.new_dish
             THEN /\ k_jt[j][t_new] = LowestUnused(last.mid.dishes_)
                  /\ AddsExactly(last.mid.dishes_, dishes_, k_jt[j][t_new])
             ELSE dishes_ = last.mid.dishes_
  /\ (ok /\ last.op = "sampling_k" /\ last.new_dish) =>
       /\ k_jt[last.j][last.t] = LowestUnused(last.mid.dishes_)
       /\ AddsExactly(last.mid.dishes_, dishes_, k_jt[last.j][last.t])

\* a new table with a new dish, the table taking an id freed earlier
C5_Witness ==
  /\ last.op = "sampling_t"
  /\ last.new_table
  /\ last.new_dish
  /\ t_ji[last.j][last.i] < Len(last.mid.using_t[last.j])

(* ---------------- the invariants (a)-(e) of the data model ---------------- *)
\* (a) per document the table word counts add up to the attached words
Inv_a(S) ==
  \A j \in 1..NDocs :
     SumOver(S.n_jt[j], ActiveTables(S, j)) = Cardinality(AttachedWords(S, j))

\* (b) per active dish the total is beta*V plus the per-word counts
Inv_b(S) ==
  \A k \in ActiveDishes(S) :
     Observed_n_k(S, k) =
       SumOver([v \in 0..(V - 1) |-> Observed_n_kv(S, k, v)], 0..(V - 1))

\* (c) a dish's table count is the number of tables bound to it, and is > 0
\* iff the dish is active; ks is the set of dish ids it is stated for
Inv_c(S, ks) ==
  \A k \in ks :
     /\ S.m_k[k] = Cardinality(TablesOfDish(S, k))
     /\ (k \in ActiveDishes(S) <=> S.m_k[k] > 0)

\* (d) a table's word count is > 0 iff the table is active
Inv_d(S) ==
  \A j \in 1..NDocs : \A t \in 1..(Size(S.n_jt[j]) - 1) :
     S.n_jt[j][t] > 0 <=> t \in ActiveTables(S, j)

\* (e) the next id allocated is the lowest unused positive integer
Inv_e(S) ==
  /\ StrictlyAscendingFromZero(S.dishes_)
  /\ FirstGap(S.dishes_) = LowestUnused(S.dishes_)
  /\ \A j \in 1..NDocs :
       /\ StrictlyAscendingFromZero(S.using_t[j])
       /\ FirstGap(S.using_t[j]) = LowestUnused(S.using_t[j])

\* (a)-(e), (c) for every dish id with storage
DataModelInv(S) ==
  Inv_a(S) /\ Inv_b(S) /\ Inv_c(S, 1..(Size(S.m_k) - 1)) /\ Inv_d(S) /\ Inv_e(S)

\* (a)-(e), (c) for the active dishes only
ActiveDataModelInv(S) ==
  Inv_a(S) /\ Inv_b(S) /\ Inv_c(S, ActiveDishes(S)) /\ Inv_d(S) /\ Inv_e(S)

RoundTripFields(S) ==
  <<S.n_jt, S.n_jtv, S.n_k, S.n_kv_, S.m_k, S.m, S.using_t, S.dishes_>>

\* C6 as claimed: remove_table(j, i) followed by add_table(j, t, i) restores
\* n_jt, n_jtv, n_k, n_kv_, m_k, m, using_t and dishes_ for every attached
\* word, the only word of a table included.
C6_RoundTripAlways ==
  (phase = "probed" /\ last.op = "round_trip") =>
     RoundTripFields(cur) = RoundTripFields(last.before)

\* C6 amended: the round trip restores the state when the word's table holds
\* at least one other word.
C6_RoundTripSharedTable ==
  (/\ phase = "probed"
   /\ last.op = "round_trip"
   /\ last.before.n_jt[last.args[1]][last.args[3]] >= 2) =>
     /\ RoundTripFields(cur) = RoundTripFields(last.before)
     /\ t_ji = last.before.t_ji
     /\ k_jt = last.before.k_jt

C6_Witness ==
  /\ phase = "probed"
  /\ last.op = "round_trip"
  /\ last.before.n_jt[last.args[1]][last.args[3]] >= 2
  /\ Cardinality(ActiveDishes(cur)) >= 2

PrimitiveOps ==
  {"remove_table", "add_table", "create_table", "create_dish", "delete_table",
   "delete_dish", "seat_at_dish", "leave_from_dish"}

\* C7 as claimed: every mutation primitive called on its own, precondition
\* met, from a state satisfying (a)-(e) returns in a state satisfying (a)-(e).
C7_EveryPrimitivePreserves ==
  (phase = "probed" /\ last.op \in PrimitiveOps /\ DataModelInv(last.before)) =>
     DataModelInv(cur)

\* C7 amended: add_table of an unassigned word onto an active table that owns
\* a dish preserves (a)-(e); the other primitives restore them only together:
\* between the steps of a sweep (a), (b), (d), (e) hold, and (c) holds for
\* the active dishes.
C7_AddTableAndStepsPreserve ==
  /\ (/\ phase = "probed"
      /\ last.op = "add_table"
      /\ last.before.t_ji[last.args[1]][last.args[3]] = 0
      /\ DataModelInv(last.before)) => DataModelInv(cur)
  /\ (phase # "probed" /\ ok) => ActiveDataModelInv(cur)

C7_Witness ==
  /\ phase = "probed"
  /\ last.op = "add_table"
  /\ last.before.t_ji[last.args[1]][last.args[3]] = 0
  /\ DataModelInv(last.before)
  /\ n_jt[last.args[1]][last.args[2]] >= 2
  /\ Cardinality(ActiveDishes(cur)) >= 2

\* C8: no assert of the sampler trips, whatever the corpus and the draws.
C8_NoAssertTrips == ok

\* two sweeps are through, with dishes destroyed and created on the way
C8_Witness ==
  /\ ok
  /\ phase = "idle"
  /\ sweeps = 2
  /\ Size(m_k) >= 4
  /\ Cardinality(ActiveDishes(cur)) >= 2

FracNonNegative(a) == a.den > 0 /\ a.num >= 0
FracPositive(a) == a.den > 0 /\ a.num > 0

\* C10: every vector returned by calc_table_posterior, calc_dish_posterior_w
\* and calc_dish_posterior_t is a valid probability vector; the weights
\* before normalization are not negative, and the new-table mass and the
\* sentinel-dish weight are > 0.
C10_PosteriorsValid ==
  /\ last.op = "sampling_t" =>
       /\ valid_probability_vector(last.p_t)
       /\ \A i \in DOMAIN last.p_t :
            FracNonNegative(table_weights(last.mid, last.j, last.f_k)[i])
       /\ FracPositive(table_weights(last.mid, last.j, last.f_k)[0])
       /\ last.new_table =>
            /\ valid_probability_vector(last.p_k)
            /\ \A i \in DOMAIN last.p_k :
                 FracNonNegative(dish_weights_w(last.mid, last.f_k)[i])
            /\ FracPositive(dish_weights_w(last.mid, last.f_k)[0])
  /\ last.op = "sampling_k" =>
       /\ valid_log_probability_vector(last.p_k)
       /\ Size(last.p_k) = Len(last.mid.dishes_)

C10_Witness ==
  /\ last.op = "sampling_t"
  /\ last.new_table
  /\ sweeps >= 1
  /\ Size(last.p_t) >= 2
  /\ Size(last.p_k) >= 2

\* sum over the dish ids ks of f_k[k] * m_k[k]
RECURSIVE DotOver(_, _, _)
DotOver(f_k, mk, ks) ==
  IF ks = {} THEN FracInt(0)
  ELSE LET k == CHOOSE x \in ks : TRUE
       IN FracAdd(FracMul(f_k[k], FracInt(mk[k])), DotOver(f_k, mk, ks \ {k}))

\* C11: the new-table mass of calc_table_posterior is
\* alpha * (gamma/V + sum over the active dishes k > 0 of f_k[k] * m_k[k])
\* / (gamma + m): the sentinel slot and the dish ids that are not active
\* contribute nothing.
C11_NewTableMass ==
  last.op = "sampling_t" =>
    table_weights(last.mid, last.j, last.f_k)[0] =
      FracMul(FracAdd(Frac(GammaU, Denom * V),
                      DotOver(last.f_k, last.mid.m_k, ActiveDishes(last.mid))),
              Frac(AlphaU, GammaU + last.mid.m * Denom))

(* ---------------- construction from any configuration ---------------- *)
\* corpora a caller may pass: any number of documents up to NDocs, ids up to
\* V (one past the largest vocabulary the bounds allow)
AnyDocs == UNION {[1..n -> 0..V] : n \in 0..MaxDocLen}
AnyCorpora ==
  UNION {{docs \in [1..n -> AnyDocs] : TotalLen(docs, n) <= MaxWords} : n \in 0..NDocs}

\* hyperparameter values a caller may pass, in units of 1/Denom
AnyHyper == {0 - AlphaU, 0, AlphaU}

\* before model_definition and state::state run: the arguments of the caller
\* (last.n, last.v: model_definition(n, v); the corpus is x_ji)
InitConfig ==
  /\ x_ji \in AnyCorpora
  /\ last \in [op : {"config"}, n : 0..NDocs, v : 0..V,
               alpha : AnyHyper, beta : AnyHyper, gamma : AnyHyper]
  /\ using_t = <<>>
  /\ dishes_ = <<>>
  /\ k_jt = <<>>
  /\ n_jt = <<>>
  /\ n_jtv = <<>>
  /\ m = 0
  /\ m_k = <<>>
  /\ n_k = defaultdict(0)
  /\ n_kv_ = <<>>
  /\ t_ji = <<>>
  /\ ok = TRUE
  /\ phase = "config"
  /\ cj = 0
  /\ ci = 0
  /\ sweeps = 0
  /\ budget = 0

\* model_definition(n, v) followed by state::state(def, alpha, beta, gamma,
\* docs, rng); ok is FALSE when a check of the two constructors failed
Construction ==
  /\ phase = "config"
  /\ using_t' = [j \in 1..Len(x_ji) |-> <<0>>]
  /\ dishes_' = <<0>>
  /\ k_jt' = [j \in 1..Len(x_ji) |-> [t \in {0} |-> 0]]
  /\ n_jt' = [j \in 1..Len(x_ji) |-> [t \in {0} |-> 0]]
  /\ n_jtv' = [j \in 1..Len(x_ji) |-> [t \in {0} |-> EmptyMap]]
  /\ m' = 0
  /\ m_k' = [k \in {0} |-> 1]
  /\ n_k' = defaultdict(last.beta * last.v)
  /\ n_kv_' = [k \in {0} |-> defaultdict(last.beta)]
  /\ t_ji' = [j \in 1..Len(x_ji) |-> [i \in 1..Len(x_ji[j]) |-> 0]]
  /\ ok' = (last.n > 0 /\ last.v > 0)
  /\ phase' = "constructed"
  /\ UNCHANGED <<x_ji, cj, ci, sweeps, budget, last>>

NextConfig == Construction

SpecConfig == InitConfig /\ [][NextConfig]_vars

\* the configuration is one the specification of the inputs excludes
InvalidConfig ==
  \/ Len(x_ji) = 0
  \/ last.n = 0
  \/ last.v = 0
  \/ last.alpha <= 0
  \/ last.beta <= 0
  \/ last.gamma <= 0
  \/ \E j \in 1..Len(x_ji) : \E i \in 1..Len(x_ji[j]) : x_ji[j][i] \notin 0..(last.v - 1)

\* C12: construction fails (a check of the constructors trips, no usable
\* state) whenever the document count is 0, V is 0, one of alpha, beta,
\* gamma is not > 0, or a document holds a vocabulary id outside [0, V).
C12_InvalidConfigRejected ==
  (phase = "constructed" /\ InvalidConfig) => ~ok

\* leave_from_dish(j, t) was called on its own on a table bound to dish
\* k > 0; LeaveCounts is what it does to the table counts and to dishes_
LeftDish == last.op = "leave_from_dish" /\ ok
LeaveJ == last.args[1]
LeaveT == last.args[2]
LeaveK == last.before.k_jt[LeaveJ][LeaveT]
LeaveCounts ==
  /\ m_k[LeaveK] = last.before.m_k[LeaveK] - 1
  /\ m = last.before.m - 1
  /\ (m_k[LeaveK] = 0 => LeaveK \notin Range(dishes_))
  /\ (m_k[LeaveK] > 0 => dishes_ = last.before.dishes_)

\* C13 as stated: after leave_from_dish(j, t) on an active table bound to
\* dish k, m_k[k] and m are one less, dish k is removed from dishes_ if its
\* table count reached 0, and k_jt[j][t] is the sentinel 0 whether the dish
\* was destroyed or survived.
C13_LeaveClearsDishAlways ==
  LeftDish => (LeaveCounts /\ k_jt[LeaveJ][LeaveT] = 0)

\* C13 amended: after leave_from_dish(j, t) on an active table bound to
\* dish k, m_k[k] and m are one less, dish k is removed from dishes_ exactly
\* if its table count reached 0, and k_jt[j][t] is 0 if the dish was
\* destroyed and still k if the dish survived.
C13_LeaveFromDish ==
  LeftDish =>
    /\ LeaveCounts
    /\ k_jt[LeaveJ][LeaveT] = (IF m_k[LeaveK] = 0 THEN 0 ELSE LeaveK)

\* leave_from_dish has left a dish that survives: another table keeps it
C13_Witness ==
  /\ LeftDish
  /\ m_k[LeaveK] > 0
  /\ LeaveK \in ActiveDishes(cur)
  /\ k_jt[LeaveJ][LeaveT] = LeaveK

\* C14: remove_table(j, i) on an unassigned word changes no count and no
\* active sequence, the word being unassigned when it was never attached
\* and also when a preceding remove_table(j, i) has just detached it:
\* detaching the same word twice in a row comes to the same state as
\* detaching it once.
C14_DetachUnassignedNoOp ==
  /\ (last.op = "remove_table" /\ last.before.t_ji[last.args[1]][last.args[2]] = 0)
       => cur = last.before
  /\ last.op = "remove_twice"
       => cur = remove_table(last.before, last.args[1], last.args[2])

wordDist_row(S, k) ==
  [v \in 0..(V - 1) |->
     IF v \in DOMAIN S.n_kv_[k].map
     THEN Frac(DDget(S.n_kv_[k], v), DDget(S.n_k, k))
     ELSE Frac(BetaU, DDget(S.n_k, k))]

\* the dishes of dishes_ wordDist does not skip
RealDishes(S) == SelectSeq(S.dishes_, LAMBDA k : k # 0)

\* wordDist(): one row per dish of dishes_ other than 0, in their order
wordDist(S) == [p \in 1..Len(RealDishes(S)) |-> wordDist_row(S, RealDishes(S)[p])]

\* docDist: am_k after "am_k[0] = gamma_"
am_k_gamma(S) ==
  [k \in DOMAIN S.m_k |-> IF k = 0 THEN Frac(GammaU, Denom) ELSE FracInt(S.m_k[k])]

\* docDist: sum_am_dishes_, the sum of am over the first n entries of dishes_
RECURSIVE sum_am_dishes_(_, _, _)
sum_am_dishes_(S, am, n) ==
  IF n = 0 THEN FracInt(0)
  ELSE FracAdd(sum_am_dishes_(S, am, n - 1), am[S.dishes_[n]])

\* docDist: am_k after "am_k[i] *= alpha_ / sum_am_dishes_"
am_k_scaled(S, am) ==
  [k \in DOMAIN am |->
     FracMul(am[k],
             FracDiv(Frac(AlphaU, Denom), sum_am_dishes_(S, am, Len(S.dishes_))))]

\* docDist: p_jk of document j before selectByIndex
p_jk_counts(S, j, am) ==
  [k \in DOMAIN am |->
     FracAdd(am[k],
             FracInt(SumOver(S.n_jt[j],
                             {t \in ActiveTables(S, j) : S.k_jt[j][t] = k})))]

\* util::selectByIndex(v, index), as a vector on 0..index.size()-1
selectByIndex(v, index) == [p \in 0..(Len(index) - 1) |-> v[index[p + 1]]]

\* docDist(): theta[j]
docDist(S) ==
  [j \in 1..NDocs |->
     normalize(selectByIndex(p_jk_counts(S, j, am_k_scaled(S, am_k_gamma(S))),
                             S.dishes_))]

\* perplexity that does not insert the row of the sentinel
phi_rows_no_sentinel(S) == wordDist(S)

\* perplexity: phi after phi.insert(phi.begin(), std::map<size_t, float>())
phi_rows(S) == <<EmptyMap>> \o wordDist(S)

\* p_kv[v] of a std::map<size_t, float>: a missing key reads as 0
PhiGet(p_kv, v) == IF v \in DOMAIN p_kv THEN p_kv[v] ELSE FracInt(0)

\* perplexity: word_prob of a word v of document j, summed over the first n
\* positions of p_jk
RECURSIVE word_prob_to(_, _, _, _)
word_prob_to(p_jk, phi, v, n) ==
  IF n = 0 THEN FracInt(0)
  ELSE FracAdd(word_prob_to(p_jk, phi, v, n - 1),
               FracMul(p_jk[n - 1], PhiGet(phi[n], v)))

word_prob(S, j, v) == word_prob_to(docDist(S)[j], phi_rows(S), v, Size(docDist(S)[j]))

\* perplexity reads phi[i] for every position i of p_jk
PerplexityAligned(S) == \A j \in 1..NDocs : Size(docDist(S)[j]) = Len(phi_rows(S))

\* perplexity(): "finite" (and then > 0, being an exp) when every word_prob
\* is finite and > 0; log(0) makes it "inf", a NaN or negative word_prob "nan"
perplexity(S) ==
  IF \A ji \in Words : FracFinite(word_prob(S, ji[1], x_ji[ji[1]][ji[2]]))
                       /\ word_prob(S, ji[1], x_ji[ji[1]][ji[2]]).num > 0
  THEN "finite"
  ELSE IF \A ji \in Words : FracFinite(word_prob(S, ji[1], x_ji[ji[1]][ji[2]]))
                            /\ word_prob(S, ji[1], x_ji[ji[1]][ji[2]]).num >= 0
  THEN "inf"
  ELSE "nan"

\* perplexity() is called between two calls of _inference, on a corpus with
\* at least one word
PerplexityCalled == phase = "idle" /\ ok /\ Words # {}

\* C16 as stated: after construction and any number of sweeps, zero
\* included, over a corpus with at least one word, perplexity() is finite
\* and > 0: there is an active dish other than the sentinel, the two
\* distributions have the same length, and every word's mixture sum is > 0.
C16_PerplexityFiniteAlways ==
  PerplexityCalled =>
    /\ ActiveDishes(cur) # {}
    /\ PerplexityAligned(cur)
    /\ perplexity(cur) = "finite"

\* C16 amended: the same after at least one sweep.
C16_PerplexityFiniteAfterSweep ==
  (PerplexityCalled /\ sweeps >= 1) =>
    /\ ActiveDishes(cur) # {}
    /\ PerplexityAligned(cur)
    /\ perplexity(cur) = "finite"

\* after two sweeps over two documents with words, two dishes are active
\* and perplexity() is finite
C16_Witness ==
  /\ PerplexityCalled
  /\ sweeps = MaxSweeps
  /\ \A j \in 1..NDocs : Len(x_ji[j]) >= 1
  /\ Cardinality(ActiveDishes(cur)) >= 2
  /\ perplexity(cur) = "finite"

(* ---------------- accessors ---------------- *)
\* ntables that leaves out the sentinel entry of using_t
ntables_without_sentinel(S, eid) == SizeSub(Len(S.using_t[eid]), 1)

\* ntables(eid): the length of using_t[eid], its sentinel entry 0 included
ntables(S, eid) == Len(S.using_t[eid])

\* ntopics(): the dishes of dishes_ other than the sentinel
ntopics(S) == SizeSub(Len(S.dishes_), 1)

\* the state is as the constructor left it: no step of a sweep has run
JustConstructed == sweeps = 0 /\ phase = "idle"

C18_AssignmentsPerDocument ==
  last.op = "assignments" =>
    /\ Len(last.args[1]) = NDocs
    /\ Len(last.args[2]) = NDocs

\* the table-phase step last recorded has seated its table at the dish id
\* the table had before the step
ResampledSameDish ==
  /\ last.op = "sampling_k"
  /\ ok
  /\ k_jt[last.j][last.t] = last.before.k_jt[last.j][last.t]

\* the counts of the active dishes and active tables of state S and of the
\* state T are the same
SameActiveCounts(S, T) ==
  /\ S.m = T.m
  /\ S.dishes_ = T.dishes_
  /\ S.using_t = T.using_t
  /\ \A k \in ActiveDishes(S) :
       /\ S.m_k[k] = T.m_k[k]
       /\ DDget(S.n_k, k) = DDget(T.n_k, k)
       /\ \A v \in 0..(V - 1) : DDget(S.n_kv_[k], v) = DDget(T.n_kv_[k], v)
  /\ \A j \in 1..NDocs : \A t \in ActiveTables(S, j) :
       /\ S.k_jt[j][t] = T.k_jt[j][t]
       /\ S.n_jt[j][t] = T.n_jt[j][t]
       /\ \A v \in 0..(V - 1) : MapGet(S.n_jtv[j][t], v) = MapGet(T.n_jtv[j][t], v)

\* C19: a step sampling_k(j, t) that seats the table at the dish id it had
\* before leaves m, dishes_ and the counts m_k, n_k, n_kv_ of the active
\* dishes and k_jt, n_jt, n_jtv of the active tables as they were, both
\* when the dish survived leave_from_dish and when it was destroyed and
\* create_dish minted the same id again.
C19_ResampleSameDish ==
  ResampledSameDish => SameActiveCounts(cur, last.before)

\* the table was the only one of its dish: leave_from_dish destroyed the
\* dish, create_dish minted the same id again while another dish was active
C19_Witness ==
  /\ ResampledSameDish
  /\ last.new_dish
  /\ last.before.k_jt[last.j][last.t] \notin ActiveDishes(last.mid)
  /\ ActiveDishes(last.mid) # {}
  /\ last.before.n_jt[last.j][last.t] >= 2

\* the words (count 1) and the words v the tables jts hold
TableWords(S, jts) == SumOver([jt \in jts |-> S.n_jt[jt[1]][jt[2]]], jts)
TableWordsOf(S, jts, v) ==
  SumOver([jt \in jts |-> MapGet(S.n_jtv[jt[1]][jt[2]], v)], jts)

\* C20: at every step boundary, for every active dish k > 0, n_k[k] minus
\* beta*V is the sum of n_jt[j][t] over the active tables (j, t) bound to k,
\* and for every vocabulary id v, n_kv_[k][v] minus beta is the sum of
\* n_jtv[j][t][v] over those tables: no count of a destroyed dish or of a
\* destroyed table is left in an active dish.
C20_DishCountsFromTables ==
  ok => \A k \in ActiveDishes(cur) :
          /\ Observed_n_k(cur, k) = One * TableWords(cur, TablesOfDish(cur, k))
          /\ \A v \in 0..(V - 1) :
               Observed_n_kv(cur, k, v) = One * TableWordsOf(cur, TablesOfDish(cur, k), v)

\* in the second sweep a dish id and a table id are in use again after
\* having been destroyed, and a dish holds the words of two tables
C20_Witness ==
  /\ sweeps >= 1
  /\ phase \in {"word", "table"}
  /\ \E k \in ActiveDishes(cur) :
       /\ Cardinality(TablesOfDish(cur, k)) >= 2
       /\ Observed_n_k(cur, k) >= 2 * One
       /\ \E k2 \in ActiveDishes(cur) : k2 > k
  /\ \E k \in 1..(Size(m_k) - 1) : k \notin ActiveDishes(cur)

\* word i of document j sits at an active table whose dish is active
AttachedToRealTable(S, j, i) ==
  /\ S.t_ji[j][i] > 0
  /\ S.t_ji[j][i] \in ActiveTables(S, j)
  /\ S.k_jt[j][S.t_ji[j][i]] > 0
  /\ S.k_jt[j][S.t_ji[j][i]] \in ActiveDishes(S)

\* n_k[0] and n_kv_[0] read as the pseudo-counts beta*V and beta
SentinelCountsInitial(S) ==
  /\ DDget(S.n_k, 0) = BetaU * V
  /\ \A v \in 0..(V - 1) : DDget(S.n_kv_[0], v) = BetaU

\* C21: after every completed sweep every word (j, i) is attached to a real
\* table: t_ji[j][i] > 0, the table is in using_t[j], its dish is > 0 and
\* in dishes_; at every step boundary no attached word sits at a table whose
\* dish is the sentinel, and n_k[0] and n_kv_[0] keep their initial
\* pseudo-count values.
C21_WordsAtRealTables ==
  ok =>
    /\ (phase = "idle" /\ sweeps >= 1) =>
         \A ji \in Words : AttachedToRealTable(cur, ji[1], ji[2])
    /\ \A ji \in Words :
         t_ji[ji[1]][ji[2]] > 0 => AttachedToRealTable(cur, ji[1], ji[2])
    /\ SentinelCountsInitial(cur)

\* two sweeps are complete over a corpus of the most words, with a word in
\* every document, and every word sits at a real table
C21_Witness ==
  /\ phase = "idle"
  /\ sweeps = MaxSweeps
  /\ TotalLen(x_ji, NDocs) = MaxWords
  /\ \A j \in 1..NDocs : Len(x_ji[j]) >= 1
  /\ \A ji \in Words : AttachedToRealTable(cur, ji[1], ji[2])

\* C22: a table-phase step sampling_k(j, t) changes only dish-side state:
\* it returns with using_t, n_jt, n_jtv, t_ji of every document and the
\* global table count m as they were before the step, so the tables the
\* table phase visits are the tables active at the end of the word phase.
C22_TablePhaseFrame ==
  (last.op = "sampling_k" /\ ok) =>
    /\ using_t = last.before.using_t
    /\ n_jt = last.before.n_jt
    /\ n_jtv = last.before.n_jtv
    /\ t_ji = last.before.t_ji
    /\ m = last.before.m
    /\ last.mid.using_t = last.before.using_t

\* a table step of a document with two tables has moved its table to
\* another dish, destroying the old dish on the way
C22_Witness ==
  /\ last.op = "sampling_k"
  /\ ok
  /\ Cardinality(ActiveTables(cur, last.j)) >= 2
  /\ k_jt[last.j][last.t] # last.before.k_jt[last.j][last.t]
  /\ last.before.k_jt[last.j][last.t] \notin ActiveDishes(last.mid)
  /\ m = last.before.m

\* the active real tables of all documents: sum over j of |using_t[j]| - 1
RealTableCount(S) == SumOver([j \in 1..NDocs |-> Len(S.using_t[j]) - 1], 1..NDocs)

\* the tables of the active dishes k > 0
DishTableTotal(S) == SumOver(S.m_k, ActiveDishes(S))

\* C23: at every step boundary the global table count m is the number of
\* active real tables of all documents (sum over j of |using_t[j]| - 1) and
\* the sum of m_k[k] over the active dishes k > 0; m never underflows: the
\* decrements inside a step (remove_table's delete_table, leave_from_dish)
\* start from m > 0.
C23_GlobalTableCount ==
  ok =>
    /\ m = RealTableCount(cur)
    /\ m = DishTableTotal(cur)
    /\ last.op = "sampling_k" =>
         last.before.m >= 1 /\ last.mid.m = last.before.m - 1
    /\ last.op = "sampling_t" =>
         /\ last.mid.m \in {last.before.m, last.before.m - 1}
         /\ last.mid.m >= 0
         /\ last.mid.m = RealTableCount(last.mid)

\* in the second sweep a word step has destroyed a table and opened a new
\* one while both documents hold tables
C23_Witness ==
  /\ last.op = "sampling_t"
  /\ sweeps >= 1
  /\ last.mid.m = last.before.m - 1
  /\ last.new_table
  /\ \A j \in 1..NDocs : Len(using_t[j]) >= 2
  /\ m >= 2
  /\ m = RealTableCount(cur)
====
